---------------------------- MODULE Spec2Model ----------------------------
(***************************************************************************)
(* A model of src/main.py, the builder of the "Not Scared of Chemistry"    *)
(* knowledge graph: main() resolves three versions, opens triples.tsv,     *)
(* runs the four decoders _excape, _biogrid, _homologene and _disgenet     *)
(* against the shared sink, sums the statistics, writes metadata.json and  *)
(* hands both files to Zenodo.                                             *)
(*                                                                         *)
(* A string is a sequence of chunks.  Every whitespace character and every *)
(* digit is a chunk of its own; a run of other characters may be written   *)
(* as one chunk ("Homo", "ncbigene:").  A text file is a sequence of       *)
(* lines, each ending in NL, as iterating a Python file object yields it.  *)
(***************************************************************************)
EXTENDS Integers, Sequences, FiniteSets, TLC

TAB == "\t"
NL == "\n"
SP == " "

\* The characters of the model's alphabet that str.strip() removes when it is
\* called without an argument.
Whitespace == {SP, TAB, NL, "\r"}

Digit == {"0", "1", "2", "3", "4", "5", "6", "7", "8", "9"}

-----------------------------------------------------------------------------
(* Bounds of the model *)

\* Data rows per activity / interaction file.
MaxRows == 3

\* Runs of main() that share the two output paths.
MaxRuns == 2

-----------------------------------------------------------------------------
(* Python's string operations, as the decoders use them *)

RECURSIVE LStrip(_)
LStrip(s) ==
    IF s # <<>> /\ Head(s) \in Whitespace THEN LStrip(Tail(s)) ELSE s

RECURSIVE RStrip(_)
RStrip(s) ==
    IF s # <<>> /\ s[Len(s)] \in Whitespace
    THEN RStrip(SubSeq(s, 1, Len(s) - 1))
    ELSE s

\* str.strip(): leading and trailing whitespace removed, tabs included.
Strip(s) == RStrip(LStrip(s))

\* The position of the first sep in s, 0 when there is none.
RECURSIVE Find(_, _, _)
Find(s, sep, k) ==
    IF k > Len(s) THEN 0
    ELSE IF s[k] = sep THEN k
    ELSE Find(s, sep, k + 1)

\* str.split(sep): "".split(sep) is [""], and "a\t".split("\t") is ["a", ""].
RECURSIVE Split(_, _)
Split(s, sep) ==
    LET k == Find(s, sep, 1) IN
    IF k = 0 THEN <<s>>
    ELSE <<SubSeq(s, 1, k - 1)>> \o Split(SubSeq(s, k + 1, Len(s)), sep)

\* line.strip().split("\t")
Fields(line) == Split(Strip(line), TAB)

\* The digits and single underscores of an integer literal's body.
RECURSIVE DigitsBody(_, _)
DigitsBody(s, prevDigit) ==
    IF s = <<>> THEN prevDigit
    ELSE IF Head(s) \in Digit THEN DigitsBody(Tail(s), TRUE)
    ELSE IF Head(s) = "_" THEN prevDigit /\ Tail(s) # <<>>
                               /\ Head(Tail(s)) \in Digit
                               /\ DigitsBody(Tail(s), FALSE)
    ELSE FALSE

\* Whether int(s) returns (TRUE) or raises ValueError (FALSE): surrounding
\* whitespace is ignored, one sign is allowed, the rest is decimal digits.
IntParses(s) ==
    LET t == Strip(s)
        u == IF t # <<>> /\ Head(t) \in {"+", "-"} THEN Tail(t) ELSE t
    IN  u # <<>> /\ Head(u) \in Digit /\ DigitsBody(u, FALSE)

DigitOf(d) ==
    CASE d = 0 -> "0" [] d = 1 -> "1" [] d = 2 -> "2" [] d = 3 -> "3"
      [] d = 4 -> "4" [] d = 5 -> "5" [] d = 6 -> "6" [] d = 7 -> "7"
      [] d = 8 -> "8" [] d = 9 -> "9"

\* f"{n}" for a non-negative integer n: its decimal digits.
RECURSIVE Str(_)
Str(n) == IF n < 10 THEN <<DigitOf(n)>> ELSE Str(n \div 10) \o <<DigitOf(n % 10)>>

\* print(s, p, o, sep="\t", file=file): the line the sink receives.
TripleLine(s, p, o) == s \o <<TAB>> \o p \o <<TAB>> \o o \o <<NL>>

\* The key k of a dict set to v (a new key is added, an old one overwritten).
Put(d, k, v) == (k :> v) @@ d

\* sum(d.values())
RECURSIVE SumValues(_)
SumValues(d) ==
    IF DOMAIN d = {} THEN 0
    ELSE LET k == CHOOSE x \in DOMAIN d : TRUE
         IN  d[k] + SumValues([y \in DOMAIN d \ {k} |-> d[y]])

-----------------------------------------------------------------------------
(* The state of one process running main(), and of the two output paths *)

VARIABLES
    pc,                 \* where main() is: the statement or decoder running
    phase,              \* inside a decoder: "call" before its loop, "loop" in it
    run,                \* the number of this run of main()
    excape_in,          \* the lines ensure_open_lzma yields for ExCAPE-DB
    biogrid_in,         \* the lines of the BioGRID archive member
    homologene_df,      \* the rows of the HomoloGene frame: <<HID, Gene ID>>
    disgenet_df,        \* the rows of the DisGeNET frame: [geneId, diseaseId]
    excape_human_only,  \* _excape's human_only argument
    biogrid_human_only, \* _biogrid's human_only argument
    statistics,         \* main's statistics dict
    writes,             \* the assignments made to statistics: <<decoder, key>>
    sink,               \* the handle of triples.tsv: "unopened", "open", "closed"
    triples_tsv,        \* triples.tsv on disk: [exists, lines]
    metadata_json,      \* metadata.json on disk: [exists, run, statistics]
    pos,                \* the next line (or frame row) the running decoder reads
    i,                  \* _excape's enumerate variable, Unbound before a row is read
    count,              \* the running decoder's local count
    keys,               \* _biogrid's four column indexes, from header_dict
    infile,             \* the decoder input that is open: "none" or its name
    diag,               \* the diagnostics written through tqdm.write
    invoked,            \* the decoders main() has called in this run, in order
    published,          \* calls of ensure_zenodo in this run
    error               \* the exception that ended the run, "" when none

inputs == <<excape_in, biogrid_in, homologene_df, disgenet_df,
            excape_human_only, biogrid_human_only>>

locals == <<pos, i, count, keys, infile>>

disk == <<triples_tsv, metadata_json>>

vars == <<pc, phase, run, inputs, statistics, writes, sink, disk, locals,
          diag, invoked, published, error>>

\* A local name that no assignment has bound yet.
Unbound == -1

EmptyDict == [k \in {} |-> 0]

NoKeys == [source_key |-> 0, target_key |-> 0,
           organism_a_key |-> 0, organism_b_key |-> 0]

NoFile == [exists |-> FALSE, lines |-> <<>>]

NoMetadata == [exists |-> FALSE, run |-> 0, statistics |-> EmptyDict]

\* The tuple index of Python's line[k]; line[k] raises IndexError unless InRange.
InRange(line, k) == k < Len(line)
At(line, k) == line[k + 1]

\* Raise, had main() opened the sink without a with block: nothing closes it.
RaiseLeakingSink(exc) ==
    /\ pc' = "failed"
    /\ error' = exc
    /\ infile' = "none"
    /\ sink' = sink

\* An exception leaves every enclosing with block: the decoder's input is
\* released, the sink is closed, and main() ends without running another
\* statement.
Raise(exc) ==
    /\ pc' = "failed"
    /\ error' = exc
    /\ infile' = "none"
    /\ sink' = IF sink = "open" THEN "closed" ELSE sink

\* NextOf, had main() called _homologene before _biogrid.
NextOfSwapped(d) ==
    CASE d = "excape" -> "homologene"
      [] d = "homologene" -> "biogrid"
      [] d = "biogrid" -> "disgenet"
      [] d = "disgenet" -> "total"

\* The decoder main() calls after d returns ("total": the with block ends).
NextOf(d) ==
    CASE d = "excape" -> "biogrid"
      [] d = "biogrid" -> "homologene"
      [] d = "homologene" -> "disgenet"
      [] d = "disgenet" -> "total"

\* statistics[key] = value, as decoder d executes it, and the return to main().
Return(d, key, value) ==
    /\ statistics' = Put(statistics, key, value)
    /\ writes' = Append(writes, <<d, key>>)
    /\ infile' = "none"
    /\ pc' = NextOf(d)
    /\ phase' = "call"

\* print(..., file=file) on the shared sink.
Emit(line) == triples_tsv' = [triples_tsv EXCEPT !.lines = Append(@, line)]

-----------------------------------------------------------------------------
(* _excape *)

HumanTaxonomy == <<"9", "6", "0", "6">>
Active == <<"A">>

\* One pass of the loop body on the raw line `raw`, read as row number n
\* (enumerate's index): what the body does with it.
ExcapeRow(raw, n, human_only) ==
    LET line == Fields(raw) IN
    IF human_only /\ ~InRange(line, 7) THEN [kind |-> "raise", exc |-> "IndexError"]
    ELSE IF human_only /\ At(line, 7) # HumanTaxonomy THEN [kind |-> "skip"]
    ELSE IF ~InRange(line, 3) THEN [kind |-> "raise", exc |-> "IndexError"]
    ELSE IF At(line, 3) # Active THEN [kind |-> "skip"]
    ELSE IF ~IntParses(At(line, 2)) THEN [kind |-> "diag", line |-> n]
    ELSE [kind |-> "emit",
          triple |-> TripleLine(<<"inchikey:">> \o At(line, 0), <<"modulates">>,
                                <<"ncbigene:">> \o At(line, 2))]

\* _excape is called: the input is opened and its header line discarded.
ExcapeCall ==
    /\ pc = "excape" /\ phase = "call"
    /\ invoked' = Append(invoked, "excape")
    /\ IF excape_in = <<>>
       THEN /\ Raise("StopIteration")
            /\ UNCHANGED <<phase, pos, i>>
       ELSE /\ infile' = "excape"
            /\ pos' = 2
            /\ i' = Unbound
            /\ phase' = "loop"
            /\ UNCHANGED <<pc, error, sink>>
    /\ UNCHANGED <<run, inputs, statistics, writes, disk, count, keys, diag,
                   published>>

\* One iteration of `for i, line in enumerate(it)`.
ExcapeLoop ==
    /\ pc = "excape" /\ phase = "loop" /\ pos <= Len(excape_in)
    /\ LET n == pos - 2
           r == ExcapeRow(excape_in[pos], n, excape_human_only)
       IN  /\ i' = n
           /\ pos' = pos + 1
           /\ IF r.kind = "raise"
              THEN Raise(r.exc)
              ELSE UNCHANGED <<pc, error, infile, sink>>
           /\ diag' = IF r.kind = "diag" THEN Append(diag, r.line) ELSE diag
           /\ IF r.kind = "emit" THEN Emit(r.triple) ELSE UNCHANGED triples_tsv
    /\ UNCHANGED <<phase, run, inputs, statistics, writes, metadata_json, count,
                   keys, invoked, published>>

\* The loop is over: statistics["excape"] = i, and the input is released.
ExcapeReturn ==
    /\ pc = "excape" /\ phase = "loop" /\ pos > Len(excape_in)
    /\ IF i = Unbound
       THEN /\ Raise("UnboundLocalError")
            /\ UNCHANGED <<phase, statistics, writes>>
       ELSE /\ Return("excape", "excape", i)
            /\ UNCHANGED <<error, sink>>
    /\ UNCHANGED <<run, inputs, disk, pos, i, count, keys, diag, invoked,
                   published>>

-----------------------------------------------------------------------------
(* _biogrid *)

SourceColumn == <<"Entrez", SP, "Gene", SP, "Interactor", SP, "A">>
TargetColumn == <<"Entrez", SP, "Gene", SP, "Interactor", SP, "B">>
OrganismAColumn == <<"Organism", SP, "Name", SP, "Interactor", SP, "A">>
OrganismBColumn == <<"Organism", SP, "Name", SP, "Interactor", SP, "B">>
HomoSapiens == <<"Homo", SP, "sapiens">>

RequiredColumns == <<SourceColumn, TargetColumn, OrganismAColumn, OrganismBColumn>>

\* header_dict = {entry: i for i, entry in enumerate(header)}: of two columns
\* with one name the later one stays.
HeaderDict(header) ==
    [e \in {header[k] : k \in 1..Len(header)} |->
        CHOOSE k \in 0..(Len(header) - 1) :
            /\ header[k + 1] = e
            /\ \A m \in 0..(Len(header) - 1) : header[m + 1] = e => m <= k]

\* The four lookups in header_dict; the first absent name raises KeyError.
LookupKeys(header_dict) ==
    IF \E c \in 1..4 : RequiredColumns[c] \notin DOMAIN header_dict
    THEN [ok |-> FALSE]
    ELSE [ok |-> TRUE,
          keys |-> [source_key |-> header_dict[SourceColumn],
                    target_key |-> header_dict[TargetColumn],
                    organism_a_key |-> header_dict[OrganismAColumn],
                    organism_b_key |-> header_dict[OrganismBColumn]]]

\* One pass of the loop body on the raw line `raw`.  `or` evaluates its
\* second operand only when the first is false.
BiogridRow(raw, k, human_only) ==
    LET line == Fields(raw) IN
    IF human_only /\ ~InRange(line, k.organism_a_key)
    THEN [kind |-> "raise", exc |-> "IndexError"]
    ELSE IF human_only /\ At(line, k.organism_a_key) # HomoSapiens
    THEN [kind |-> "skip"]
    ELSE IF human_only /\ ~InRange(line, k.organism_b_key)
    THEN [kind |-> "raise", exc |-> "IndexError"]
    ELSE IF human_only /\ At(line, k.organism_b_key) # HomoSapiens
    THEN [kind |-> "skip"]
    ELSE IF ~InRange(line, k.source_key) \/ ~InRange(line, k.target_key)
    THEN [kind |-> "raise", exc |-> "IndexError"]
    ELSE [kind |-> "emit",
          triple |-> TripleLine(<<"ncbigene:">> \o At(line, k.source_key),
                                <<"interacts">>,
                                <<"ncbigene:">> \o At(line, k.target_key))]

\* _biogrid is called: the archive member is opened, its first line read as
\* the header and the four column indexes looked up.
BiogridCall ==
    /\ pc = "biogrid" /\ phase = "call"
    /\ invoked' = Append(invoked, "biogrid")
    /\ IF biogrid_in = <<>>
       THEN /\ Raise("StopIteration")
            /\ UNCHANGED <<phase, pos, count, keys>>
       ELSE LET found == LookupKeys(HeaderDict(Fields(biogrid_in[1]))) IN
            IF ~found.ok
            THEN /\ Raise("KeyError")
                 /\ UNCHANGED <<phase, pos, count, keys>>
            ELSE /\ infile' = "biogrid"
                 /\ keys' = found.keys
                 /\ count' = 0
                 /\ pos' = 2
                 /\ phase' = "loop"
                 /\ UNCHANGED <<pc, error, sink>>
    /\ UNCHANGED <<run, inputs, statistics, writes, disk, i, diag, published>>

\* One iteration of `for line in lines`.
BiogridLoop ==
    /\ pc = "biogrid" /\ phase = "loop" /\ pos <= Len(biogrid_in)
    /\ LET r == BiogridRow(biogrid_in[pos], keys, biogrid_human_only)
       IN  /\ pos' = pos + 1
           /\ IF r.kind = "raise"
              THEN Raise(r.exc)
              ELSE UNCHANGED <<pc, error, infile, sink>>
           /\ count' = IF r.kind = "emit" THEN count + 1 ELSE count
           /\ IF r.kind = "emit" THEN Emit(r.triple) ELSE UNCHANGED triples_tsv
    /\ UNCHANGED <<phase, run, inputs, statistics, writes, metadata_json, i,
                   keys, diag, invoked, published>>

\* The loop is over: statistics["biogrid"] = count, and the archive is released.
BiogridReturn ==
    /\ pc = "biogrid" /\ phase = "loop" /\ pos > Len(biogrid_in)
    /\ Return("biogrid", "biogrid", count)
    /\ UNCHANGED <<run, inputs, sink, disk, pos, i, count, keys, diag, invoked,
                   published, error>>

-----------------------------------------------------------------------------
(* _homologene *)

\* The triple of one frame row: `for homologene_id, ncbigene_id in it`.
HomologeneRow(row) ==
    TripleLine(<<"ncbigene:">> \o Str(row[2]), <<"homologyGroup">>,
               <<"homologene:">> \o Str(row[1]))

\* _homologene is called: ensure_csv has loaded columns 0 and 2.
HomologeneCall ==
    /\ pc = "homologene" /\ phase = "call"
    /\ invoked' = Append(invoked, "homologene")
    /\ count' = 0
    /\ pos' = 1
    /\ phase' = "loop"
    /\ UNCHANGED <<pc, run, inputs, statistics, writes, sink, disk, i, keys,
                   infile, diag, published, error>>

HomologeneLoop ==
    /\ pc = "homologene" /\ phase = "loop" /\ pos <= Len(homologene_df)
    /\ count' = count + 1
    /\ Emit(HomologeneRow(homologene_df[pos]))
    /\ pos' = pos + 1
    /\ UNCHANGED <<pc, phase, run, inputs, statistics, writes, sink,
                   metadata_json, i, keys, infile, diag, invoked, published,
                   error>>

HomologeneReturn ==
    /\ pc = "homologene" /\ phase = "loop" /\ pos > Len(homologene_df)
    /\ Return("homologene", "homologene", count)
    /\ UNCHANGED <<run, inputs, sink, disk, pos, i, count, keys, diag, invoked,
                   published, error>>

-----------------------------------------------------------------------------
(* _disgenet *)

\* DisgenetRow, had the gene id been used as read.
DisgenetRowUnstripped(row) ==
    TripleLine(<<"ncbigene:">> \o row.geneId, <<"associated">>,
               <<"umls:">> \o row.diseaseId)

\* The triple of one frame row: the gene id stripped, the disease id as read.
DisgenetRow(row) ==
    TripleLine(<<"ncbigene:">> \o Strip(row.geneId), <<"associated">>,
               <<"umls:">> \o row.diseaseId)

\* _disgenet is called: ensure_csv has loaded the frame, geneId as str.
DisgenetCall ==
    /\ pc = "disgenet" /\ phase = "call"
    /\ invoked' = Append(invoked, "disgenet")
    /\ count' = 0
    /\ pos' = 1
    /\ phase' = "loop"
    /\ UNCHANGED <<pc, run, inputs, statistics, writes, sink, disk, i, keys,
                   infile, diag, published, error>>

DisgenetLoop ==
    /\ pc = "disgenet" /\ phase = "loop" /\ pos <= Len(disgenet_df)
    /\ count' = count + 1
    /\ Emit(DisgenetRow(disgenet_df[pos]))
    /\ pos' = pos + 1
    /\ UNCHANGED <<pc, phase, run, inputs, statistics, writes, sink,
                   metadata_json, i, keys, infile, diag, invoked, published,
                   error>>

\* DisgenetReturn, had _disgenet kept the key of the function it was copied from.
DisgenetReturnWrongKey ==
    /\ pc = "disgenet" /\ phase = "loop" /\ pos > Len(disgenet_df)
    /\ Return("disgenet", "homologene", count)
    /\ UNCHANGED <<run, inputs, sink, disk, pos, i, count, keys, diag, invoked,
                   published, error>>

DisgenetReturn ==
    /\ pc = "disgenet" /\ phase = "loop" /\ pos > Len(disgenet_df)
    /\ Return("disgenet", "disgenet", count)
    /\ UNCHANGED <<run, inputs, sink, disk, pos, i, count, keys, diag, invoked,
                   published, error>>

-----------------------------------------------------------------------------
(* main *)

\* The three bioversions.get_version calls: any of them may raise, and then
\* nothing below line 56 runs.  Otherwise statistics = {} and the path is built.
MainVersions ==
    /\ pc = "versions"
    /\ \E resolved \in BOOLEAN :
        IF resolved
        THEN /\ pc' = "open"
             /\ statistics' = EmptyDict
             /\ UNCHANGED <<error, infile, sink>>
        ELSE /\ Raise("VersionError")
             /\ UNCHANGED statistics
    /\ UNCHANGED <<phase, run, inputs, writes, disk, pos, i, count, keys, diag,
                   invoked, published>>

\* triples_path.open("w"): the file is created, or truncated when it exists.
MainOpen ==
    /\ pc = "open"
    /\ sink' = "open"
    /\ triples_tsv' = [exists |-> TRUE, lines |-> <<>>]
    /\ pc' = "excape"
    /\ UNCHANGED <<phase, run, inputs, statistics, writes, metadata_json, locals,
                   diag, invoked, published, error>>

\* The with block ends, and statistics["total"] = sum(statistics.values()).
MainTotal ==
    /\ pc = "total"
    /\ sink' = "closed"
    /\ statistics' = Put(statistics, "total", SumValues(statistics))
    /\ pc' = "metadata"
    /\ UNCHANGED <<phase, run, inputs, writes, disk, locals, diag, invoked,
                   published, error>>

\* json.dump of the metadata to metadata.json, opened with "w".
MainMetadata ==
    /\ pc = "metadata"
    /\ metadata_json' = [exists |-> TRUE, run |-> run, statistics |-> statistics]
    /\ pc' = "zenodo"
    /\ UNCHANGED <<phase, run, inputs, statistics, writes, sink, triples_tsv,
                   locals, diag, invoked, published, error>>

\* ensure_zenodo uploads the two files; the upload may fail.
MainZenodo ==
    /\ pc = "zenodo"
    /\ published' = published + 1
    /\ \E uploaded \in BOOLEAN :
        IF uploaded
        THEN /\ pc' = "done"
             /\ UNCHANGED <<error, infile, sink>>
        ELSE Raise("PublicationError")
    /\ UNCHANGED <<phase, run, inputs, statistics, writes, disk, pos, i, count,
                   keys, diag, invoked>>

-----------------------------------------------------------------------------
(* The inputs the decoders are run on *)

RECURSIVE Join(_, _)
Join(cells, sep) ==
    IF cells = <<>> THEN <<>>
    ELSE IF Len(cells) = 1 THEN cells[1]
    ELSE cells[1] \o <<sep>> \o Join(Tail(cells), sep)

\* One line of a tab-separated file, as the file object yields it.
MkLine(cells) == Join(cells, TAB) \o <<NL>>

SeqsUpTo(S, n) == UNION {[1..k -> S] : k \in 0..n}

MouseTaxonomy == <<"1", "0", "0", "9", "0">>

ExcapeHeader ==
    MkLine(<< <<"Ambit_InchiKey">>, <<"Original_Entry_ID">>, <<"Entrez_ID">>,
              <<"Activity_Flag">>, <<"pXC50">>, <<"DB">>, <<"Original_Assay_ID">>,
              <<"Tax_ID">>, <<"Gene_Symbol">> >>)

\* An activity row: fields 0, 2, 3 and 7 are the ones _excape reads.
ActivityLine(inchikey, entrez, flag, tax) ==
    MkLine(<< inchikey, <<"CHEMBL">>, entrez, flag, <<"6.1">>, <<"chembl">>,
              <<"assay">>, tax, <<"EGFR">> >>)

ActiveHuman == ActivityLine(<<"X">>, <<"4", "2">>, <<"A">>, HumanTaxonomy)
ActiveMouse == ActivityLine(<<"Y">>, <<"7">>, <<"A">>, MouseTaxonomy)
Inactive == ActivityLine(<<"X">>, <<"4", "2">>, <<"N">>, HumanTaxonomy)
NonNumericTarget == ActivityLine(<<"Z">>, <<"P", "4", "2">>, <<"A">>, HumanTaxonomy)
NoCompound == ActivityLine(<<>>, <<"4", "2">>, <<"A">>, HumanTaxonomy)
Truncated == MkLine(<< <<"X">>, <<"CHEMBL">> >>)

ExcapeLines ==
    {ActiveHuman, ActiveMouse, Inactive, NonNumericTarget, NoCompound, Truncated}

ExcapeFiles == {<<ExcapeHeader>> \o rows : rows \in SeqsUpTo(ExcapeLines, MaxRows)}

\* The cells of an interaction table, in the order id, gene A, gene B,
\* organism A, organism B: BioGRID's tab3 files end with the organism names.
BiogridNames ==
    << <<"#BioGRID", SP, "Interaction", SP, "ID">>, SourceColumn, TargetColumn,
       OrganismAColumn, OrganismBColumn >>

\* The same table in a release that renamed the last column.
RenamedNames == [BiogridNames EXCEPT ![5] = <<"Organism", SP, "B">>]

MusMusculus == <<"Mus", SP, "musculus">>

BiogridCells ==
    { << <<"1">>, <<"1", "9", "5", "6">>, <<"7", "1", "5", "7">>, HomoSapiens, HomoSapiens >>,
      << <<"2">>, <<"1", "9", "5", "6">>, <<"2", "2">>, HomoSapiens, MusMusculus >>,
      << <<"3">>, <<"1">>, <<"2">>, <<"homo", SP, "sapiens">>, HomoSapiens >>,
      << <<"4">>, <<"5">>, <<"6">>, HomoSapiens, HomoSapiens \o <<SP>> >>,
      << <<>>, <<"8">>, <<"9">>, HomoSapiens, HomoSapiens >>,
      << <<"5">>, <<"7">> >> }

\* cells in the column order `order`; a row of another width is left as it is.
Permute(cells, order) ==
    IF Len(cells) = Len(order)
    THEN [k \in 1..Len(order) |-> cells[order[k]]]
    ELSE cells

\* The file of a table whose columns are written in the order `order`.
BiogridFile(names, order, rows) ==
    <<MkLine(Permute(names, order))>>
        \o [k \in 1..Len(rows) |-> MkLine(Permute(rows[k], order))]

\* The tab3 order, and the one with gene A and organism A transposed.
ColumnOrders == {<<1, 2, 3, 4, 5>>, <<1, 4, 3, 2, 5>>}

BiogridFiles ==
    {BiogridFile(names, order, rows) :
        names \in {BiogridNames, RenamedNames}, order \in ColumnOrders,
        rows \in SeqsUpTo(BiogridCells, MaxRows)}

HomologeneRows == {<<10, 1956>>, <<10, 7157>>, <<3, 5>>}

HomologeneFrames == SeqsUpTo(HomologeneRows, MaxRows)

DisgenetRows ==
    { [geneId |-> <<SP, "1", "9", "5", "6", SP>>, diseaseId |-> <<"C0006142">>],
      [geneId |-> <<"1", "9", "5", "6">>, diseaseId |-> <<"C1">>],
      [geneId |-> <<"7">>, diseaseId |-> <<"C1">>] }

DisgenetFrames == SeqsUpTo(DisgenetRows, MaxRows)

\* The source files a run of main() may find in the cache; the first ExCAPE-DB
\* file is an empty stream.
MainExcapeFiles ==
    { <<>>,
      <<ExcapeHeader, ActiveHuman>>,
      <<ExcapeHeader, ActiveMouse, NonNumericTarget, Inactive>> }

MainBiogridFiles ==
    { BiogridFile(BiogridNames, <<1, 2, 3, 4, 5>>,
                  << << <<"1">>, <<"1", "9", "5", "6">>, <<"7", "1", "5", "7">>,
                        HomoSapiens, HomoSapiens >>,
                     << <<"2">>, <<"1", "9", "5", "6">>, <<"2", "2">>,
                        HomoSapiens, MusMusculus >> >>),
      BiogridFile(RenamedNames, <<1, 2, 3, 4, 5>>,
                  << << <<"1">>, <<"1", "9", "5", "6">>, <<"7", "1", "5", "7">>,
                        HomoSapiens, HomoSapiens >> >>) }

MainHomologeneFrames == { <<>>, << <<10, 1956>>, <<10, 7157>> >> }

MainDisgenetFrames ==
    { << [geneId |-> <<SP, "1", "9", "5", "6", SP>>, diseaseId |-> <<"C0006142">>] >>,
      << [geneId |-> <<"7">>, diseaseId |-> <<"C1">>],
         [geneId |-> <<"1", "9", "5", "6">>, diseaseId |-> <<"C1">>] >> }

-----------------------------------------------------------------------------
(* Specifications *)

\* The state of a process about to execute `at`, with the sink in state `s`.
Fresh(at, s) ==
    /\ pc = at
    /\ phase = "call"
    /\ statistics = EmptyDict
    /\ writes = <<>>
    /\ sink = s
    /\ pos = 0
    /\ i = Unbound
    /\ count = 0
    /\ keys = NoKeys
    /\ infile = "none"
    /\ diag = <<>>
    /\ invoked = <<>>
    /\ published = 0
    /\ error = ""

\* main() is called: neither output file exists yet, and both decoders that
\* take human_only get its default.
Init ==
    /\ Fresh("versions", "unopened")
    /\ run = 1
    /\ excape_in \in MainExcapeFiles
    /\ biogrid_in \in MainBiogridFiles
    /\ homologene_df \in MainHomologeneFrames
    /\ disgenet_df \in MainDisgenetFrames
    /\ excape_human_only = FALSE
    /\ biogrid_human_only = FALSE
    /\ triples_tsv = NoFile
    /\ metadata_json = NoMetadata

\* main() is called again, after an earlier run ended: the output paths are the
\* same, the source files may be those of newer releases.
Rerun ==
    /\ pc \in {"done", "failed"}
    /\ run < MaxRuns
    /\ run' = run + 1
    /\ pc' = "versions"
    /\ phase' = "call"
    /\ statistics' = EmptyDict
    /\ writes' = <<>>
    /\ sink' = "unopened"
    /\ pos' = 0
    /\ i' = Unbound
    /\ count' = 0
    /\ keys' = NoKeys
    /\ infile' = "none"
    /\ diag' = <<>>
    /\ invoked' = <<>>
    /\ published' = 0
    /\ error' = ""
    /\ excape_in' \in MainExcapeFiles
    /\ biogrid_in' \in MainBiogridFiles
    /\ homologene_df' \in MainHomologeneFrames
    /\ disgenet_df' \in MainDisgenetFrames
    /\ UNCHANGED <<excape_human_only, biogrid_human_only, disk>>

Next ==
    \/ MainVersions \/ MainOpen
    \/ ExcapeCall \/ ExcapeLoop \/ ExcapeReturn
    \/ BiogridCall \/ BiogridLoop \/ BiogridReturn
    \/ HomologeneCall \/ HomologeneLoop \/ HomologeneReturn
    \/ DisgenetCall \/ DisgenetLoop \/ DisgenetReturn
    \/ MainTotal \/ MainMetadata \/ MainZenodo
    \/ Rerun

Spec == Init /\ [][Next]_vars

\* A decoder called on its own, with an open sink: the inputs it does not read
\* are empty.
Alone(at) ==
    /\ Fresh(at, "open")
    /\ run = 1
    /\ triples_tsv = [exists |-> TRUE, lines |-> <<>>]
    /\ metadata_json = NoMetadata

InitExcape ==
    /\ Alone("excape")
    /\ excape_in \in ExcapeFiles
    /\ excape_human_only \in BOOLEAN
    /\ biogrid_in = <<>>
    /\ biogrid_human_only = FALSE
    /\ homologene_df = <<>>
    /\ disgenet_df = <<>>

SpecExcape == InitExcape /\ [][ExcapeCall \/ ExcapeLoop \/ ExcapeReturn]_vars

InitBiogrid ==
    /\ Alone("biogrid")
    /\ biogrid_in \in BiogridFiles
    /\ biogrid_human_only \in BOOLEAN
    /\ excape_in = <<>>
    /\ excape_human_only = FALSE
    /\ homologene_df = <<>>
    /\ disgenet_df = <<>>

SpecBiogrid == InitBiogrid /\ [][BiogridCall \/ BiogridLoop \/ BiogridReturn]_vars

InitTabular ==
    /\ Alone("homologene")
    /\ homologene_df \in HomologeneFrames
    /\ disgenet_df \in DisgenetFrames
    /\ excape_in = <<>>
    /\ excape_human_only = FALSE
    /\ biogrid_in = <<>>
    /\ biogrid_human_only = FALSE

SpecTabular ==
    InitTabular /\ [][\/ HomologeneCall \/ HomologeneLoop \/ HomologeneReturn
                      \/ DisgenetCall \/ DisgenetLoop \/ DisgenetReturn]_vars

-----------------------------------------------------------------------------
(* What the specification says of a file, read off the file itself *)

\* The tab-separated cells of a line, its line terminator apart.
RawCells(line) ==
    Split(IF line # <<>> /\ line[Len(line)] = NL
          THEN SubSeq(line, 1, Len(line) - 1) ELSE line, TAB)

\* Cell k of a row, counted from 0, and whether the row has one.
HasCell(cells, k) == k < Len(cells)
Cell(cells, k) == cells[k + 1]

\* The lines after the header line.
DataRows(file) == SubSeq(file, 2, Len(file))

\* An activity row passes the filters: flag "A", an integer target, and the
\* human taxonomy code when human_only is set.
ActivityPasses(row, human_only) ==
    LET c == RawCells(row) IN
    /\ HasCell(c, 3) /\ Cell(c, 3) = <<"A">>
    /\ HasCell(c, 2) /\ IntParses(Cell(c, 2))
    /\ human_only => (HasCell(c, 7) /\ Cell(c, 7) = <<"9", "6", "0", "6">>)

ActivityTriple(row) ==
    LET c == RawCells(row) IN
    <<"inchikey:">> \o Cell(c, 0) \o <<TAB, "modulates", TAB, "ncbigene:">>
        \o Cell(c, 2) \o <<NL>>

\* The triples the activity decoder is to write for the rows `rows`.
RECURSIVE TriplesOfRows(_, _)
TriplesOfRows(rows, human_only) ==
    IF rows = <<>> THEN <<>>
    ELSE (IF ActivityPasses(Head(rows), human_only)
          THEN <<ActivityTriple(Head(rows))>> ELSE <<>>)
             \o TriplesOfRows(Tail(rows), human_only)

ActivityTriples(file, human_only) == TriplesOfRows(DataRows(file), human_only)

\* _excape is over, by a return or by an exception.
ExcapeEnded == pc # "excape"

-----------------------------------------------------------------------------
(* C1 *)

\* C1: on a header line followed by zero or more data rows, _excape completes
\* and statistics["excape"] is the number of triples it wrote to the sink.
C1_CountIsTriplesWritten ==
    ExcapeEnded =>
        /\ pc # "failed"
        /\ "excape" \in DOMAIN statistics
        /\ statistics["excape"] = Len(triples_tsv.lines)

-----------------------------------------------------------------------------
(* C3 *)

\* Every data row has its cells up to the taxonomy one.
AllCellsPresent(file) ==
    \A k \in 2..Len(file) : HasCell(RawCells(file[k]), 7)

\* C3: for every sequence of activity rows (here: rows that have all their
\* cells), _excape writes exactly the triples of the rows whose field 3 is "A",
\* whose field 2 parses as an integer and, under human_only, whose field 7 is
\* "9606"; none for any other row; in row order.
C3_ExactlyThePassingRows ==
    (ExcapeEnded /\ AllCellsPresent(excape_in)) =>
        triples_tsv.lines = ActivityTriples(excape_in, excape_human_only)

-----------------------------------------------------------------------------
(* C4 *)

\* A row whose flag is "A" (and, under human_only, whose taxonomy is human) but
\* whose target is no integer: the malformed row the specification names.
TargetMalformed(row, human_only) ==
    LET c == RawCells(row) IN
    /\ HasCell(c, 3) /\ Cell(c, 3) = <<"A">>
    /\ ~IntParses(Cell(c, 2))
    /\ human_only => (HasCell(c, 7) /\ Cell(c, 7) = <<"9", "6", "0", "6">>)

\* The positions, counted from 0, of the malformed rows among the data rows.
RECURSIVE MalformedPositions(_, _, _)
MalformedPositions(rows, n, human_only) ==
    IF rows = <<>> THEN <<>>
    ELSE (IF TargetMalformed(Head(rows), human_only) THEN <<n>> ELSE <<>>)
             \o MalformedPositions(Tail(rows), n + 1, human_only)

\* The decoder reads every data row's fields as they stand in the file, and
\* some row is malformed.
OnlyTargetsMalformed(file, human_only) ==
    /\ AllCellsPresent(file)
    /\ \A k \in 2..Len(file) : Fields(file[k]) = RawCells(file[k])
    /\ \E k \in 2..Len(file) : TargetMalformed(file[k], human_only)

\* C4: a malformed row (here: one whose target is no integer) never aborts
\* _excape: it is skipped with a diagnostic that carries its position, writes
\* no triple and does not count toward statistics["excape"], and every later
\* passing row still writes its triple.
C4_MalformedRowsAreSkipped ==
    (ExcapeEnded /\ OnlyTargetsMalformed(excape_in, excape_human_only)) =>
        /\ pc # "failed"
        /\ diag = MalformedPositions(DataRows(excape_in), 0, excape_human_only)
        /\ triples_tsv.lines = ActivityTriples(excape_in, excape_human_only)
        /\ statistics["excape"]
               = Len(ActivityTriples(excape_in, excape_human_only))

-----------------------------------------------------------------------------
(* C5 *)

\* The position, counted from 0, of the column called name.
ColumnOf(header, name) ==
    CHOOSE k \in 0..(Len(header) - 1) : header[k + 1] = name

HasColumns(header) ==
    \A c \in 1..4 : \E k \in 1..Len(header) : header[k] = RequiredColumns[c]

\* The file has the four required columns and every row has a cell, and not
\* an empty one, for each column of the header.
FullTable(file) ==
    /\ file # <<>>
    /\ HasColumns(RawCells(file[1]))
    /\ \A k \in 2..Len(file) :
          /\ Len(RawCells(file[k])) = Len(RawCells(file[1]))
          /\ \A c \in 1..Len(RawCells(file[k])) : RawCells(file[k])[c] # <<>>

InteractionPasses(header, row, human_only) ==
    human_only =>
        /\ Cell(RawCells(row), ColumnOf(header, OrganismAColumn))
               = <<"Homo", SP, "sapiens">>
        /\ Cell(RawCells(row), ColumnOf(header, OrganismBColumn))
               = <<"Homo", SP, "sapiens">>

InteractionTriple(header, row) ==
    <<"ncbigene:">> \o Cell(RawCells(row), ColumnOf(header, SourceColumn))
        \o <<TAB, "interacts", TAB, "ncbigene:">>
        \o Cell(RawCells(row), ColumnOf(header, TargetColumn)) \o <<NL>>

RECURSIVE InteractionsOfRows(_, _, _)
InteractionsOfRows(header, rows, human_only) ==
    IF rows = <<>> THEN <<>>
    ELSE (IF InteractionPasses(header, Head(rows), human_only)
          THEN <<InteractionTriple(header, Head(rows))>> ELSE <<>>)
             \o InteractionsOfRows(header, Tail(rows), human_only)

\* The triples the interaction decoder is to write for a file.
InteractionTriples(file, human_only) ==
    InteractionsOfRows(RawCells(file[1]), DataRows(file), human_only)

BiogridEnded == pc # "biogrid"

\* C5: under human_only a row writes (ncbigene:A, interacts, ncbigene:B) if
\* and only if both organism names are exactly "Homo sapiens"; without it
\* every row writes its triple; statistics["biogrid"] is the number written.
C5_ExactlyTheHumanRows ==
    (BiogridEnded /\ FullTable(biogrid_in)) =>
        /\ pc # "failed"
        /\ triples_tsv.lines = InteractionTriples(biogrid_in, biogrid_human_only)
        /\ statistics["biogrid"] = Len(triples_tsv.lines)

-----------------------------------------------------------------------------
(* C6 *)

ColumnPermutations(n) ==
    {f \in [1..n -> 1..n] : \A a, b \in 1..n : f[a] = f[b] => a = b}

\* The file with its columns written in the order `order`, header and rows.
PermuteFile(file, order) ==
    [k \in 1..Len(file) |-> MkLine(Permute(RawCells(file[k]), order))]

\* What _biogrid does with a list of rows: the triples it writes, its count,
\* and whether it gets through them.
RECURSIVE BiogridRows(_, _, _, _)
BiogridRows(rows, k, human_only, acc) ==
    IF rows = <<>> THEN [ok |-> TRUE, lines |-> acc, count |-> Len(acc)]
    ELSE LET r == BiogridRow(Head(rows), k, human_only) IN
         IF r.kind = "raise" THEN [ok |-> FALSE, lines |-> acc, count |-> 0]
         ELSE BiogridRows(Tail(rows), k, human_only,
                          IF r.kind = "emit" THEN Append(acc, r.triple) ELSE acc)

\* What _biogrid does with a file.
BiogridRun(file, human_only) ==
    IF file = <<>> THEN [ok |-> FALSE, lines |-> <<>>, count |-> 0]
    ELSE LET found == LookupKeys(HeaderDict(Fields(file[1]))) IN
         IF ~found.ok THEN [ok |-> FALSE, lines |-> <<>>, count |-> 0]
         ELSE BiogridRows(DataRows(file), found.keys, human_only, <<>>)

\* What _biogrid has done in this run.
BiogridDone ==
    [ok |-> pc # "failed",
     lines |-> triples_tsv.lines,
     count |-> IF pc # "failed" THEN statistics["biogrid"] ELSE 0]

\* C6: for any file whose rows have a cell in every column, and any
\* permutation of its columns applied to the header and to every row, _biogrid
\* writes the same triples and records the same count as for the file itself.
C6_ColumnOrderIsImmaterial ==
    (BiogridEnded /\ FullTable(biogrid_in)) =>
        \A order \in ColumnPermutations(Len(RawCells(biogrid_in[1]))) :
            BiogridRun(PermuteFile(biogrid_in, order), biogrid_human_only)
                = BiogridDone

-----------------------------------------------------------------------------
(* C9 *)

\* The decimal numerals of the identifiers in the frames.
Numeral ==
    (3 :> <<"3">>) @@ (5 :> <<"5">>) @@ (10 :> <<"1", "0">>)
        @@ (1956 :> <<"1", "9", "5", "6">>) @@ (7157 :> <<"7", "1", "5", "7">>)

\* s without its surrounding whitespace: the part of s between a leading and a
\* trailing run of whitespace that neither starts nor ends with whitespace.
Trimmed(s) ==
    CHOOSE t \in {SubSeq(s, a, b) : a \in 1..(Len(s) + 1), b \in 0..Len(s)} :
        \E a \in 1..(Len(s) + 1), b \in 0..Len(s) :
            /\ t = SubSeq(s, a, b)
            /\ \A k \in 1..(a - 1) : s[k] \in {SP, TAB, NL}
            /\ \A k \in (b + 1)..Len(s) : s[k] \in {SP, TAB, NL}
            /\ t = <<>> \/ (t[1] \notin {SP, TAB, NL} /\ t[Len(t)] \notin {SP, TAB, NL})

OrthologyTriples(frame) ==
    [k \in 1..Len(frame) |->
        <<"ncbigene:">> \o Numeral[frame[k][2]]
            \o <<TAB, "homologyGroup", TAB, "homologene:">>
            \o Numeral[frame[k][1]] \o <<NL>>]

AssociationTriples(frame) ==
    [k \in 1..Len(frame) |->
        <<"ncbigene:">> \o Trimmed(frame[k].geneId)
            \o <<TAB, "associated", TAB, "umls:">> \o frame[k].diseaseId \o <<NL>>]

\* C9: _homologene writes (ncbigene:<gene>, homologyGroup, homologene:<group>)
\* for every row and _disgenet writes (ncbigene:<gene, stripped>, associated,
\* umls:<disease>) for every row, in row order, and each records the row count.
C9_OneTriplePerRow ==
    /\ pc # "failed"
    /\ "homologene" \in DOMAIN statistics =>
        /\ statistics["homologene"] = Len(homologene_df)
        /\ SubSeq(triples_tsv.lines, 1, Len(homologene_df))
               = OrthologyTriples(homologene_df)
    /\ "disgenet" \in DOMAIN statistics =>
        /\ statistics["disgenet"] = Len(disgenet_df)
        /\ triples_tsv.lines
               = OrthologyTriples(homologene_df) \o AssociationTriples(disgenet_df)

\* Both decoders have returned, _homologene from the two-row fixture and
\* _disgenet from a frame whose first gene id is " 1956 ".
C9_Witness ==
    /\ pc = "total"
    /\ homologene_df = << <<10, 1956>>, <<10, 7157>> >>
    /\ Len(disgenet_df) = 2
    /\ disgenet_df[1].geneId = <<SP, "1", "9", "5", "6", SP>>
    /\ triples_tsv.lines[3]
           = <<"ncbigene:", "1", "9", "5", "6", TAB, "associated", TAB,
               "umls:", "C0006142", NL>>

-----------------------------------------------------------------------------
(* C2 *)

Sources == {"excape", "biogrid", "homologene", "disgenet"}

\* main() has written metadata.json in this run.
MetadataWritten ==
    \/ pc \in {"zenodo", "done"}
    \/ pc = "failed" /\ error = "PublicationError"

\* C2: after a run in which the four decoders completed, statistics holds the
\* four source keys and "total", total is the sum of the four counts, each
\* decoder assigned its own key once and no other, and metadata.json holds
\* that mapping.
C2_TotalIsSumOfSources ==
    (pc = "metadata" \/ MetadataWritten) =>
        /\ DOMAIN statistics = Sources \cup {"total"}
        /\ statistics["total"]
               = statistics["excape"] + statistics["biogrid"]
                     + statistics["homologene"] + statistics["disgenet"]
        /\ writes = << <<"excape", "excape">>, <<"biogrid", "biogrid">>,
                       <<"homologene", "homologene">>, <<"disgenet", "disgenet">> >>
        /\ MetadataWritten =>
            /\ metadata_json.exists
            /\ metadata_json.run = run
            /\ metadata_json.statistics = statistics

\* A run has ended with three sources that counted triples.
C2_Witness ==
    /\ pc = "done"
    /\ statistics["biogrid"] = 2
    /\ statistics["homologene"] = 2
    /\ statistics["disgenet"] = 2
    /\ statistics["total"] > 6
    /\ metadata_json.statistics = statistics

-----------------------------------------------------------------------------
(* C7 *)

FixedOrder == <<"excape", "biogrid", "homologene", "disgenet">>

IsPrefix(a, b) == Len(a) <= Len(b) /\ a = SubSeq(b, 1, Len(a))

\* The run is over.
RunEnded == pc \in {"done", "failed"}

\* The four decoders have returned.
DecodersCompleted == pc \in {"total", "metadata"} \/ MetadataWritten

\* The number of input lines (or frame rows) decoder d has read so far in this
\* run, of the `all` it is given.
ReadBy(d, all) ==
    IF d \in DOMAIN statistics THEN all
    ELSE IF invoked # <<>> /\ invoked[Len(invoked)] = d /\ phase = "loop"
    THEN pos - 1
    ELSE 0

\* The triples _excape writes for lines m..n of the file, in line order.
RECURSIVE ExcapeBlock(_, _)
ExcapeBlock(m, n) ==
    IF m > n THEN <<>>
    ELSE LET r == ExcapeRow(excape_in[m], m - 2, excape_human_only)
         IN  (IF r.kind = "emit" THEN <<r.triple>> ELSE <<>>)
                 \o ExcapeBlock(m + 1, n)

RECURSIVE BiogridBlock(_, _)
BiogridBlock(m, n) ==
    IF m > n THEN <<>>
    ELSE LET k == LookupKeys(HeaderDict(Fields(biogrid_in[1]))).keys
             r == BiogridRow(biogrid_in[m], k, biogrid_human_only)
         IN  (IF r.kind = "emit" THEN <<r.triple>> ELSE <<>>)
                 \o BiogridBlock(m + 1, n)

HomologeneBlock(n) == [k \in 1..n |-> HomologeneRow(homologene_df[k])]

DisgenetBlock(n) == [k \in 1..n |-> DisgenetRow(disgenet_df[k])]

\* The place of a line's decoder in the fixed order, read off its predicate.
DecoderOf(line) ==
    LET p == line[Find(line, TAB, 1) + 1] IN
    CASE p = "modulates" -> 1
      [] p = "interacts" -> 2
      [] p = "homologyGroup" -> 3
      [] p = "associated" -> 4

\* C7, as the claim states it: in every run each of the four decoders is
\* invoked exactly once, in the order activity, interaction, orthology,
\* association.
C7_EveryRunInvokesAllFour == RunEnded => invoked = FixedOrder

\* C7, amended: the decoders are invoked in the fixed order, each at most
\* once, and each exactly once in a run that no fatal error ends; a decoder
\* starts only after every decoder before it has returned and released its
\* input; and triples.tsv holds the decoders' triples as contiguous blocks in
\* that order, each block in the row order of its input.
C7_FixedOrderAndBlocks ==
    /\ IsPrefix(invoked, FixedOrder)
    /\ DecodersCompleted => invoked = FixedOrder
    /\ \A k \in 1..(Len(invoked) - 1) : invoked[k] \in DOMAIN statistics
    /\ infile # "none" => (infile = pc /\ invoked[Len(invoked)] = pc)
    /\ (pc \in Sources /\ phase = "call") => infile = "none"
    /\ sink = "unopened" => invoked = <<>>
    /\ sink # "unopened" =>
        /\ triples_tsv.lines
               = ExcapeBlock(2, ReadBy("excape", Len(excape_in)))
                   \o BiogridBlock(2, ReadBy("biogrid", Len(biogrid_in)))
                   \o HomologeneBlock(ReadBy("homologene", Len(homologene_df)))
                   \o DisgenetBlock(ReadBy("disgenet", Len(disgenet_df)))
        /\ \A a, b \in 1..Len(triples_tsv.lines) :
               a < b => DecoderOf(triples_tsv.lines[a])
                            <= DecoderOf(triples_tsv.lines[b])

\* A run has ended with triples of all four decoders in the file.
C7_Witness ==
    /\ pc = "done"
    /\ invoked = FixedOrder
    /\ {DecoderOf(triples_tsv.lines[k]) : k \in 1..Len(triples_tsv.lines)} = 1..4
    /\ Len(triples_tsv.lines) >= 6

-----------------------------------------------------------------------------
(* C8 *)

\* The run was ended by an exception raised before metadata.json was written.
Aborted == pc = "failed" /\ error # "PublicationError"

C8_Aborted ==
    Aborted =>
        /\ published = 0
        /\ ~(metadata_json.exists /\ metadata_json.run = run)
        /\ "total" \notin DOMAIN statistics
        /\ infile = "none"
        /\ error = "VersionError" => (sink = "unopened" /\ invoked = <<>>)
        /\ error # "VersionError" =>
            /\ sink = "closed"
            /\ invoked # <<>>
            /\ IsPrefix(invoked, FixedOrder)
            /\ invoked[Len(invoked)] \notin DOMAIN statistics

\* A failed version resolution leaves triples.tsv as it was: not there, or
\* with the lines an earlier run wrote.
C8_VersionFailureStep ==
    (pc = "versions" /\ pc' = "failed") =>
        (triples_tsv' = triples_tsv /\ sink' = "unopened")

\* C8: a fatal error aborts the run where it occurs: when version resolution
\* fails triples.tsv is neither created nor truncated; when a decoder raises,
\* no later decoder is invoked, the sink is released, this run writes no
\* metadata.json and ensure_zenodo is not called.
C8_FatalErrorAborts == []C8_Aborted /\ [][C8_VersionFailureStep]_vars

\* A second run failed on a missing BioGRID column after _excape had written
\* its triples, with the first run's metadata.json still in place.
C8_Witness ==
    /\ pc = "failed"
    /\ error = "KeyError"
    /\ run = 2
    /\ invoked = <<"excape", "biogrid">>
    /\ triples_tsv.lines # <<>>
    /\ sink = "closed"
    /\ metadata_json.exists

-----------------------------------------------------------------------------
(* C10 *)

\* C10: whenever the most recent run ended in a fatal error after it had
\* written part of triples.tsv, no metadata.json stands beside the partial
\* triples.tsv.
C10_NoMetadataBesidePartialTriples ==
    (Aborted /\ sink = "closed" /\ triples_tsv.lines # <<>>)
        => ~metadata_json.exists

=============================================================================
